---- MODULE Spec2Model ----
(***************************************************************************)
(* A model of pymc/distributions/continuous.py: the parameter resolver     *)
(* draw_values, the precision rule get_tau, the ten distribution variants  *)
(* (construction, logp, random) and the truncation combinator Bound /      *)
(* Bounded.                                                                *)
(*                                                                         *)
(* Numbers.  A number is a record [k, n, d, s].  k = "fin" is the rational *)
(* n/d in lowest terms (d > 0); "pinf", "ninf" and "nan" are the three     *)
(* IEEE special values; "none" is Python's None; "ref" is a stochastic     *)
(* reference (another variable, named s); "sym" is a tensor expression     *)
(* over a stochastic reference, which has no number yet; "err" is a Python *)
(* exception (named s) raised while the expression was evaluated.          *)
(* Finite values are kept exactly while their denominator is at most 1000  *)
(* and are rounded to three decimals beyond that, as the code's floats are *)
(* rounded to 53 bits.  log, exp and gammaln are computed to that          *)
(* precision.                                                              *)
(***************************************************************************)
EXTENDS Integers, Sequences, FiniteSets, TLC

VARIABLES nodes, tmpl, point, stack, trace, op, result

vars == <<nodes, tmpl, point, stack, trace, op, result>>

(***************************************************************************)
(* Number representation                                                   *)
(***************************************************************************)
AbsInt(i) == IF i < 0 THEN 0 - i ELSE i

RECURSIVE GCD(_, _)
GCD(a, b) == IF b = 0 THEN a ELSE GCD(b, a % b)

Val(k, n, d, s) == [k |-> k, n |-> n, d |-> d, s |-> s]

\* n/d divided through by g, their greatest common divisor
ReduceBy(n, d, g) ==
    IF g = 0 THEN Val("fin", 0, 1, "") ELSE Val("fin", n \div g, d \div g, "")

\* n/d with d > 0, reduced to lowest terms
Reduce(n, d) == ReduceBy(n, d, GCD(AbsInt(n), d))

\* r unless its numerator no longer fits a product: then the integer q
Fit(r, q) == IF AbsInt(r.n) > 46340 /\ r.d > 1 THEN Val("fin", q, 1, "") ELSE r

\* the reduced r kept exactly, or rounded to three decimals when its
\* denominator exceeds 1000
Rounded(r) ==
    IF r.d > 1000
    THEN Fit(Reduce((r.n \div r.d) * 1000 + (((r.n % r.d) * 1000) \div r.d), 1000),
             r.n \div r.d)
    ELSE Fit(r, r.n \div r.d)

\* n/d (d # 0) as a number
Fin(n, d) == Rounded(Reduce(IF d < 0 THEN 0 - n ELSE n, AbsInt(d)))

Num(i)  == Val("fin", i, 1, "")
NaN     == Val("nan", 0, 1, "")
PosInf  == Val("pinf", 0, 1, "")
NegInf  == Val("ninf", 0, 1, "")
None    == Val("none", 0, 1, "")
Sym     == Val("sym", 0, 1, "")
Ref(nm) == Val("ref", 0, 1, nm)
Err(e)  == Val("err", 0, 1, e)

IsFin(v) == v.k = "fin"
IsErr(v) == v.k = "err"
IsSym(v) == v.k \in {"sym", "ref"}
IsNum(v) == v.k \in {"fin", "pinf", "ninf", "nan"}

\* -1, 0 or 1 for a finite or infinite number
Sign(v) ==
    CASE v.k = "pinf" -> 1
      [] v.k = "ninf" -> 0 - 1
      [] OTHER -> IF v.n > 0 THEN 1 ELSE IF v.n < 0 THEN 0 - 1 ELSE 0

Inf(sg) == IF sg > 0 THEN PosInf ELSE NegInf

\* what every arithmetic operation does before it looks at numbers: an
\* exception of an operand propagates, an expression over a stochastic
\* reference stays an expression, None is no operand, NaN stays NaN
Lift2(a, b, r) ==
    CASE IsErr(a) -> a
      [] IsErr(b) -> b
      [] a.k = "none" \/ b.k = "none" -> Err("TypeError")
      [] IsSym(a) \/ IsSym(b) -> Sym
      [] a.k = "nan" \/ b.k = "nan" -> NaN
      [] OTHER -> r

Lift1(a, r) ==
    CASE IsErr(a) -> a
      [] a.k = "none" -> Err("TypeError")
      [] IsSym(a) -> Sym
      [] a.k = "nan" -> NaN
      [] OTHER -> r

Neg(a) ==
    Lift1(a, CASE a.k = "pinf" -> NegInf
               [] a.k = "ninf" -> PosInf
               [] OTHER -> Fin(0 - a.n, a.d))

Add(a, b) ==
    Lift2(a, b,
        CASE IsFin(a) /\ IsFin(b) -> Fin(a.n * b.d + b.n * a.d, a.d * b.d)
          [] IsFin(a) -> b
          [] IsFin(b) -> a
          [] OTHER -> IF a.k = b.k THEN a ELSE NaN)

Sub(a, b) == Add(a, Neg(b))

Mul(a, b) ==
    Lift2(a, b,
        CASE IsFin(a) /\ IsFin(b) -> Fin(a.n * b.n, a.d * b.d)
          [] OTHER -> IF Sign(a) * Sign(b) = 0 THEN NaN ELSE Inf(Sign(a) * Sign(b)))

\* division of array or tensor operands: IEEE, nothing raised
Div(a, b) ==
    Lift2(a, b,
        CASE IsFin(a) /\ IsFin(b) ->
                 IF b.n # 0 THEN Fin(a.n * b.d, a.d * b.n)
                 ELSE IF a.n = 0 THEN NaN ELSE Inf(Sign(a))
          [] IsFin(b) -> IF Sign(b) = 0 THEN a ELSE Inf(Sign(a) * Sign(b))
          [] IsFin(a) -> Num(0)
          [] OTHER -> NaN)

\* division of two Python numbers: a zero divisor raises
PyDiv(a, b) ==
    IF IsFin(a) /\ IsFin(b) /\ b.n = 0 THEN Err("ZeroDivisionError") ELSE Div(a, b)

Sq(a) == Mul(a, a)

AbsV(a) == Lift1(a, IF Sign(a) < 0 THEN Neg(a) ELSE a)

\* comparisons: false as soon as an operand is NaN
Lt(a, b) ==
    /\ IsNum(a) /\ IsNum(b) /\ a.k # "nan" /\ b.k # "nan"
    /\ CASE IsFin(a) /\ IsFin(b) -> a.n * b.d < b.n * a.d
         [] a.k = "ninf" -> b.k # "ninf"
         [] b.k = "pinf" -> a.k # "pinf"
         [] OTHER -> FALSE

Le(a, b) ==
    /\ IsNum(a) /\ IsNum(b) /\ a.k # "nan" /\ b.k # "nan"
    /\ (Lt(a, b) \/ a = b)

Gt(a, b) == Lt(b, a)
Ge(a, b) == Le(b, a)

Max2(a, b) == Lift2(a, b, IF Lt(a, b) THEN b ELSE a)

(***************************************************************************)
(* dist_math and Python helpers                                            *)
(***************************************************************************)
\* natural logarithms of the primes up to 31, in thousandths
LnPrime(p) ==
    CASE p = 2 -> 693 [] p = 3 -> 1099 [] p = 5 -> 1609 [] p = 7 -> 1946
      [] p = 11 -> 2398 [] p = 13 -> 2565 [] p = 17 -> 2833 [] p = 19 -> 2944
      [] p = 23 -> 3135 [] p = 29 -> 3367 [] p = 31 -> 3434

SmallPrimes == {2, 3, 5, 7, 11, 13, 17, 19, 23, 29, 31}

\* 1000 * ln(i) for an integer i >= 1: the sum over i's prime factors; a
\* prime above 31 is the mean of its two even neighbours (off by < 1/2)
RECURSIVE LnMilli(_)
LnMilli(i) ==
    IF i <= 1 THEN 0
    ELSE LET ps == {p \in SmallPrimes : i % p = 0}
         IN  IF ps # {}
             THEN LET p == CHOOSE q \in ps : \A r \in ps : q <= r
                  IN  LnPrime(p) + LnMilli(i \div p)
             ELSE (LnMilli(i - 1) + LnMilli(i + 1)) \div 2

\* log: NaN below zero, -inf at zero
log(a) ==
    Lift1(a,
        CASE a.k = "pinf" -> PosInf
          [] a.k = "ninf" -> NaN
          [] OTHER -> IF a.n < 0 THEN NaN
                      ELSE IF a.n = 0 THEN NegInf
                      ELSE Fin(LnMilli(a.n) - LnMilli(a.d), 1000))

\* the Taylor series of exp at x = xm/1000, |x| <= 5/2, in 1/100000
RECURSIVE ExpTerms(_, _, _)
ExpTerms(xm, j, term) ==
    IF term = 0 \/ j > 40 THEN 0
    ELSE term + ExpTerms(xm, j + 1, (term * xm) \div (1000 * j))

RECURSIVE exp(_)
exp(a) ==
    Lift1(a,
        CASE a.k = "pinf" -> PosInf
          [] a.k = "ninf" -> Num(0)
          [] OTHER ->
               IF AbsInt(a.n) * 2 <= 5 * a.d
               THEN Fin(ExpTerms((a.n * 1000) \div a.d, 1, 100000), 100000)
               ELSE Sq(exp(Fin(a.n, 2 * a.d))))

\* 1000 * ln(1 * 2 * ... * (i - 1))
RECURSIVE LnFactMilli(_)
LnFactMilli(i) == IF i <= 2 THEN 0 ELSE LnMilli(i - 1) + LnFactMilli(i - 1)

\* log|Gamma| at an integer or a half-integer; +inf at the poles 0, -1, ...
RECURSIVE gammaln(_)
gammaln(a) ==
    Lift1(a,
        CASE a.k = "pinf" -> PosInf
          [] a.k = "ninf" -> PosInf
          [] a.d = 1 -> IF a.n <= 0 THEN PosInf ELSE Fin(LnFactMilli(a.n), 1000)
          [] a.d = 2 /\ a.n = 1 -> Fin(572, 1000)
          [] a.d = 2 /\ a.n > 1 ->
               Add(gammaln(Fin(a.n - 2, 2)), log(Fin(a.n - 2, 2)))
          [] a.d = 2 /\ a.n < 0 ->
               Sub(gammaln(Fin(a.n + 2, 2)), log(Fin(0 - a.n, 2)))
          [] OTHER -> NaN)

\* logpow(x, m): m * log(x), and 0 where x = 0 and m = 0
logpow(x, m) ==
    IF IsFin(x) /\ IsFin(m) /\ x.n = 0 /\ m.n = 0 THEN Num(0) ELSE Mul(m, log(x))

\* bound(logp, *conditions): logp where every condition holds, -inf elsewhere;
\* an exception raised while an argument was evaluated is raised by the call
bound(logp, conditions) ==
    IF IsErr(logp) THEN logp
    ELSE IF \A i \in DOMAIN conditions : conditions[i] THEN logp
    ELSE NegInf

\* base ** -2 of Python numbers
PowMinus2(a) == PyDiv(Num(1), Sq(a))

\* pi, as the rational 355/113
pi == Fin(355, 113)

(***************************************************************************)
(* Instances.  An instance is [cls, at]: its class and its attribute       *)
(* dictionary (__dict__), a function from attribute names to values.  A    *)
(* constructor whose body raises yields no instance but Raised(e).         *)
(***************************************************************************)
Inst(cls, at) == [cls |-> cls, at |-> at]
Raised(e) == [cls |-> "<raised>", at |-> ("error" :> e)]
IsRaised(i) == i.cls = "<raised>"

\* the instance, unless computing one of its attributes raised
Built(cls, at) ==
    LET bad == {a \in DOMAIN at : IsErr(at[a])}
    IN  IF bad = {} THEN Inst(cls, at)
        ELSE Raised(at[CHOOSE a \in bad : TRUE])

\* Continuous.__init__: the base class keeps the output shape
ContinuousInit(shape) == "shape" :> shape

\* get_tau without its check that tau and sd are not both given
get_tau_unchecked(tau, sd) ==
    IF tau.k = "none"
    THEN IF sd.k = "none" THEN Num(1) ELSE PowMinus2(sd)
    ELSE tau

get_tau(tau, sd) ==
    IF tau.k = "none"
    THEN IF sd.k = "none" THEN Num(1) ELSE PowMinus2(sd)
    ELSE IF sd.k # "none" THEN Err("ValueError") ELSE tau

Uniform_init(lower, upper, shape) ==
    LET mean == PyDiv(Add(upper, lower), Num(2))
    IN  Built("Uniform",
              ("lower" :> lower) @@ ("upper" :> upper) @@ ("mean" :> mean)
              @@ ("median" :> mean) @@ ContinuousInit(shape))

Flat_init(shape) == Built("Flat", ("median" :> Num(0)) @@ ContinuousInit(shape))

Normal_init(mu, tau, sd, shape) ==
    LET t == get_tau(tau, sd)
    IN  Built("Normal",
              ("mean" :> mu) @@ ("median" :> mu) @@ ("mode" :> mu) @@ ("mu" :> mu)
              @@ ("tau" :> t) @@ ("variance" :> PyDiv(Num(1), t))
              @@ ContinuousInit(shape))

Beta_init(alpha, beta, shape) ==
    LET ab == Add(alpha, beta)
    IN  Built("Beta",
              ("alpha" :> alpha) @@ ("beta" :> beta)
              @@ ("mean" :> PyDiv(alpha, ab))
              @@ ("variance" :> PyDiv(Mul(alpha, beta), Mul(Sq(ab), Add(ab, Num(1)))))
              @@ ContinuousInit(shape))

Exponential_init(lam, shape) ==
    LET mean == PyDiv(Num(1), lam)
    IN  Built("Exponential",
              ("lam" :> lam) @@ ("mean" :> mean) @@ ("median" :> Mul(mean, log(Num(2))))
              @@ ("mode" :> Num(0)) @@ ("variance" :> PowMinus2(lam))
              @@ ContinuousInit(shape))

Laplace_init(mu, b, shape) ==
    Built("Laplace",
          ("b" :> b) @@ ("mean" :> mu) @@ ("median" :> mu) @@ ("mode" :> mu)
          @@ ("mu" :> mu) @@ ("variance" :> Mul(Num(2), Sq(b)))
          @@ ContinuousInit(shape))

Lognormal_init(mu, tau, shape) ==
    LET it == PyDiv(Num(1), tau)
    IN  Built("Lognormal",
              ("mu" :> mu) @@ ("tau" :> tau)
              @@ ("mean" :> exp(Add(mu, PyDiv(Num(1), Mul(Num(2), tau)))))
              @@ ("median" :> exp(mu))
              @@ ("mode" :> exp(Sub(mu, it)))
              @@ ("variance" :> Mul(Sub(exp(it), Num(1)), exp(Add(Mul(Num(2), mu), it))))
              @@ ContinuousInit(shape))

\* switch(cond, a, b) with its arguments already evaluated
switch(cond, a, b) ==
    CASE IsErr(a) -> a
      [] IsErr(b) -> b
      [] IsErr(cond) -> cond
      [] IsSym(cond) \/ IsSym(a) \/ IsSym(b) -> Sym
      [] OTHER -> IF IsFin(cond) /\ cond.n # 0 THEN a ELSE b

\* (c) * 1 for a comparison c of Python numbers or tensors
Truth(c, operands) ==
    IF \E i \in DOMAIN operands : IsSym(operands[i]) THEN Sym
    ELSE IF c THEN Num(1) ELSE Num(0)

T_init(nu, mu, lam, shape) ==
    Built("T",
          ("nu" :> nu) @@ ("lam" :> lam) @@ ("mean" :> mu) @@ ("median" :> mu)
          @@ ("mode" :> mu) @@ ("mu" :> mu)
          @@ ("variance" :> switch(Truth(Gt(nu, Num(2)), <<nu>>),
                                   PyDiv(PyDiv(nu, Sub(nu, Num(2))), lam), PosInf))
          @@ ContinuousInit(shape))

Cauchy_init(alpha, beta, shape) ==
    Built("Cauchy",
          ("median" :> alpha) @@ ("mode" :> alpha) @@ ("alpha" :> alpha)
          @@ ("beta" :> beta) @@ ContinuousInit(shape))

Gamma_init(alpha, beta, shape) ==
    Built("Gamma",
          ("alpha" :> alpha) @@ ("beta" :> beta)
          @@ ("mean" :> PyDiv(alpha, beta))
          @@ ("median" :> Max2(PyDiv(Sub(alpha, Num(1)), beta), Num(0)))
          @@ ("variance" :> PyDiv(alpha, Sq(beta)))
          @@ ContinuousInit(shape))

\* cls.dist(*args): the constructor of class cls on positional arguments,
\* with the class's defaults for the arguments left out
Arg(args, i, default) == IF i <= Len(args) THEN args[i] ELSE default

Dist(cls, args, shape) ==
    CASE cls = "Uniform" -> Uniform_init(Arg(args, 1, Num(0)), Arg(args, 2, Num(1)), shape)
      [] cls = "Flat" -> Flat_init(shape)
      [] cls = "Normal" -> Normal_init(Arg(args, 1, Num(0)), Arg(args, 2, None),
                                       Arg(args, 3, None), shape)
      [] cls = "Lognormal" -> Lognormal_init(Arg(args, 1, Num(0)), Arg(args, 2, Num(1)), shape)
      [] cls = "T" /\ Len(args) >= 1 ->
             T_init(args[1], Arg(args, 2, Num(0)), Arg(args, 3, Num(1)), shape)
      [] cls = "Exponential" /\ Len(args) >= 1 -> Exponential_init(args[1], shape)
      [] cls = "Beta" /\ Len(args) >= 2 -> Beta_init(args[1], args[2], shape)
      [] cls = "Laplace" /\ Len(args) >= 2 -> Laplace_init(args[1], args[2], shape)
      [] cls = "Cauchy" /\ Len(args) >= 2 -> Cauchy_init(args[1], args[2], shape)
      [] cls = "Gamma" /\ Len(args) >= 2 -> Gamma_init(args[1], args[2], shape)
      [] OTHER -> Raised(Err("TypeError"))

(***************************************************************************)
(* logp.  self is the instance's attribute dictionary; value is a number.  *)
(* Sub-expressions over the parameters alone are Python arithmetic; those  *)
(* over value are tensor arithmetic.                                       *)
(***************************************************************************)
Half == Fin(1, 2)

Uniform_logp(self, value) ==
    LET lower == self["lower"]
        upper == self["upper"]
    IN  bound(Neg(log(Sub(upper, lower))),
              <<Le(lower, value), Le(value, upper)>>)

\* a flat density kept to the non-negative values
Flat_logp_positive(self, value) == IF Ge(value, Num(0)) THEN Num(0) ELSE NegInf

\* zeros_like(value)
Flat_logp(self, value) == Num(0)

Normal_logp(self, value) ==
    LET tau == self["tau"]
        mu  == self["mu"]
    IN  bound(Div(Add(Mul(Neg(tau), Sq(Sub(value, mu))),
                      log(PyDiv(PyDiv(tau, pi), Num(2)))),
                  Num(2)),
              <<Gt(tau, Num(0))>>)

Beta_logp(self, value) ==
    LET alpha == self["alpha"]
        beta  == self["beta"]
    IN  bound(Add(Add(Sub(Sub(gammaln(Add(alpha, beta)), gammaln(alpha)), gammaln(beta)),
                      logpow(value, Sub(alpha, Num(1)))),
                  logpow(Sub(Num(1), value), Sub(beta, Num(1)))),
              <<Le(Num(0), value), Le(value, Num(1)),
                Gt(alpha, Num(0)), Gt(beta, Num(0))>>)

Exponential_logp(self, value) ==
    LET lam == self["lam"]
    IN  bound(Sub(log(lam), Mul(lam, value)),
              <<Gt(value, Num(0)), Gt(lam, Num(0))>>)

Laplace_logp(self, value) ==
    LET mu == self["mu"]
        b  == self["b"]
    IN  Sub(Neg(log(Mul(Num(2), b))), Div(AbsV(Sub(value, mu)), b))

Lognormal_logp(self, value) ==
    LET mu  == self["mu"]
        tau == self["tau"]
    IN  bound(Sub(Add(Mul(Mul(Neg(Half), tau), Sq(Sub(log(value), mu))),
                      Mul(Half, log(PyDiv(tau, Mul(Num(2), pi))))),
                  log(value)),
              <<Gt(tau, Num(0))>>)

T_logp(self, value) ==
    LET nu  == self["nu"]
        mu  == self["mu"]
        lam == self["lam"]
        h   == PyDiv(Add(nu, Num(1)), Num(2))
    IN  bound(Sub(Sub(Add(gammaln(h), Mul(Half, log(PyDiv(lam, Mul(nu, pi))))),
                      gammaln(PyDiv(nu, Num(2)))),
                  Mul(h, log(Add(Num(1), Div(Mul(lam, Sq(Sub(value, mu))), nu))))),
              <<Gt(lam, Num(0)), Gt(nu, Num(0))>>)

Cauchy_logp(self, value) ==
    LET alpha == self["alpha"]
        beta  == self["beta"]
    IN  bound(Sub(Sub(Neg(log(pi)), log(beta)),
                  log(Add(Num(1), Sq(Div(Sub(value, alpha), beta))))),
              <<Gt(beta, Num(0))>>)

Gamma_logp(self, value) ==
    LET alpha == self["alpha"]
        beta  == self["beta"]
    IN  bound(Add(Sub(Add(Neg(gammaln(alpha)), logpow(beta, alpha)), Mul(beta, value)),
                  logpow(value, Sub(alpha, Num(1)))),
              <<Ge(value, Num(0)), Gt(alpha, Num(0)), Gt(beta, Num(0))>>)

\* inst.logp(value) for an instance of one of the ten variants
VariantLogp(inst, value) ==
    CASE inst.cls = "Uniform" -> Uniform_logp(inst.at, value)
      [] inst.cls = "Flat" -> Flat_logp(inst.at, value)
      [] inst.cls = "Normal" -> Normal_logp(inst.at, value)
      [] inst.cls = "Beta" -> Beta_logp(inst.at, value)
      [] inst.cls = "Exponential" -> Exponential_logp(inst.at, value)
      [] inst.cls = "Laplace" -> Laplace_logp(inst.at, value)
      [] inst.cls = "Lognormal" -> Lognormal_logp(inst.at, value)
      [] inst.cls = "T" -> T_logp(inst.at, value)
      [] inst.cls = "Cauchy" -> Cauchy_logp(inst.at, value)
      [] inst.cls = "Gamma" -> Gamma_logp(inst.at, value)

(***************************************************************************)
(* Bound and Bounded                                                       *)
(***************************************************************************)
\* Bound.__init__
Bound_init(distribution, lower, upper) ==
    [distribution |-> distribution, lower |-> lower, upper |-> upper]

\* locals() of Bounded.__init__
BoundedLocals(distribution, lower, upper, args) ==
    ("self" :> Val("self", 0, 1, "")) @@ ("distribution" :> distribution)
    @@ ("lower" :> lower) @@ ("upper" :> upper) @@ ("args" :> args)
    @@ ("kwargs" :> <<>>)

\* self.mode = self.dist.mode, if the inner instance has a mode
WithMode(at, dist) ==
    IF "mode" \in DOMAIN dist.at THEN ("mode" :> dist.at["mode"]) @@ at ELSE at

\* the body of Bounded.__init__ once self.dist = dist is made: dist's
\* dictionary copied onto self, then locals() copied over it, then mode
BoundedOf(dist, locals) ==
    IF IsRaised(dist) THEN dist
    ELSE Inst("Bounded", WithMode(locals @@ (dist.at @@ ("dist" :> dist)), dist))

\* Bounded.__init__(self, distribution, lower, upper, *args)
Bounded_init(distribution, lower, upper, args, shape) ==
    BoundedOf(Dist(distribution, args, shape),
              BoundedLocals(distribution, lower, upper, args))

Bounded_logp(self, value) ==
    bound(VariantLogp(self["dist"], value),
          <<Le(self["lower"], value), Le(value, self["upper"])>>)

\* Bound.__call__(name, *args): Bounded(name, distribution, lower, upper, *args)
Bound_call(self, args, shape) ==
    Bounded_init(self.distribution, self.lower, self.upper, args, shape)

Logp(inst, value) ==
    IF inst.cls = "Bounded" THEN Bounded_logp(inst.at, value) ELSE VariantLogp(inst, value)

(***************************************************************************)
(* Sampling.  numpy's generators are nondeterministic: each is the set of  *)
(* values it may return, taken at a few standard draws.  A generator that  *)
(* raises returns Err.                                                     *)
(***************************************************************************)
\* the integer square root of m >= 0, by Newton's iteration from r
RECURSIVE ISqrt(_, _)
ISqrt(m, r) ==
    LET nx == (r + (m \div r)) \div 2
    IN  IF nx >= r THEN r ELSE ISqrt(m, nx)

\* np.sqrt, to two decimals: NaN below zero
sqrt(a) ==
    Lift1(a,
        CASE a.k = "pinf" -> PosInf
          [] a.k = "ninf" -> NaN
          [] OTHER -> IF a.n < 0 THEN NaN
                      ELSE IF a.n = 0 THEN Num(0)
                      ELSE LET m == ((a.n * 100) \div a.d) * 100 + (((a.n * 100) % a.d) * 100) \div a.d
                           IN  Fin(ISqrt(m, m + 1), 100))

AllFin(vs) == \A i \in DOMAIN vs : IsFin(vs[i])

\* the standard draws: of a unit uniform, of a standard normal
UnitDraws == {Num(0), Fin(1, 2)}
ZDraws    == {Num(0 - 1), Num(0), Num(1)}

\* runiform(low, high, size): low + (high - low) * u, u in [0, 1)
runiform(low, high) ==
    IF AllFin(<<low, high>>) THEN {Add(low, Mul(Sub(high, low), u)) : u \in UnitDraws}
    ELSE {NaN}

\* rnormal(loc, scale, size): loc + scale * z; a negative scale raises
rnormal(loc, scale) ==
    IF AllFin(<<loc, scale>>)
    THEN IF scale.n < 0 THEN {Err("ValueError")}
         ELSE {Add(loc, Mul(scale, z)) : z \in ZDraws}
    ELSE {NaN}

\* rexponential(scale, size): positive multiples of scale; a negative scale raises
rexponential(scale) ==
    CASE IsFin(scale) /\ scale.n < 0 -> {Err("ValueError")}
      [] scale.k = "ninf" -> {Err("ValueError")}
      [] IsFin(scale) /\ scale.n > 0 -> {Mul(scale, Fin(1, 2)), scale, Mul(scale, Num(2))}
      [] IsFin(scale) -> {Num(0)}
      [] OTHER -> {scale}

\* rlognormal(mean, sigma, size): exp(mean + sigma * z); a negative sigma raises
rlognormal(mean, sigma) ==
    IF AllFin(<<mean, sigma>>)
    THEN IF sigma.n < 0 THEN {Err("ValueError")}
         ELSE {exp(Add(mean, Mul(sigma, z))) : z \in ZDraws}
    ELSE {NaN}

\* sbeta.ppf(random(shape), alpha, beta): a quantile in [0, 1), NaN for
\* parameters that are not positive
sbeta_ppf(alpha, beta) ==
    IF AllFin(<<alpha, beta>>) /\ alpha.n > 0 /\ beta.n > 0
    THEN {Num(0), Fin(1, 4), Fin(1, 2), Fin(3, 4)}
    ELSE {NaN}

\* np.tan(np.pi * random(shape) - np.pi / 2.0): any real
TanDraws == ZDraws

\* what random() raises before it calls draw_values, or None: Flat raises
\* outright; T reads self.tau, which no T has; Gamma passes draw_values
\* three arguments
RandomRaisesFirst(inst) ==
    CASE inst.cls = "Flat" -> Err("NotImplementedError")
      [] inst.cls = "T" -> Err("AttributeError")
      [] inst.cls = "Gamma" -> Err("TypeError")
      [] OTHER -> None

\* the params that random() hands to draw_values, in the order of the call
RandomParams(inst) ==
    LET self == inst.at
    IN  CASE inst.cls = "Uniform" -> <<self["upper"], self["lower"]>>
          [] inst.cls = "Normal" -> <<self["mu"], self["tau"]>>
          [] inst.cls = "Beta" -> <<self["alpha"], self["beta"]>>
          [] inst.cls = "Exponential" -> <<self["lam"]>>
          [] inst.cls = "Laplace" -> <<self["mu"], self["b"]>>
          [] inst.cls = "Lognormal" -> <<self["mu"], self["tau"]>>
          [] inst.cls = "Cauchy" -> <<self["alpha"], self["beta"]>>
          [] OTHER -> <<>>

\* the values random() may return once draw_values has returned v
RandomDraw(inst, v) ==
    CASE inst.cls = "Uniform" -> runiform(v[1], v[2])
      [] inst.cls = "Normal" -> rnormal(v[1], sqrt(v[2]))
      [] inst.cls = "Beta" -> sbeta_ppf(v[1], v[2])
      [] inst.cls = "Exponential" -> rexponential(Div(Num(1), v[1]))
      [] inst.cls = "Laplace" -> {Err("NameError")}
      [] inst.cls = "Lognormal" -> rlognormal(v[1], sqrt(Div(Num(1), v[2])))
      [] inst.cls = "Cauchy" -> {Add(v[1], Mul(v[2], t)) : t \in TanDraws}

(***************************************************************************)
(* draw_values                                                             *)
(***************************************************************************)
\* bool(v) of a looked-up value: None and zero are false
Truthy(v) == ~(v.k = "none" \/ (IsFin(v) /\ v.n = 0))

\* hasattr(item, 'random')
HasRandom(item) == item.k = "ref"

\* A fixed state is [has, map]: has is false for point = None; map[nm] is
\* point.get(nm), None where the mapping has no entry for nm.
NoPoint(names) == [has |-> FALSE, map |-> [nm \in names |-> None]]

\* point.pop(name): a lookup that takes the entry out of the dictionary
AfterPop(pt, nm) == [pt EXCEPT !.map[nm] = None]

\* point.get(name): the dictionary after the lookup
AfterGet(pt, nm) == pt

\* draw_values with item.random() in place of item.random(point)
DrawItem_unconditional(item, pt) ==
    IF ~HasRandom(item) THEN [act |-> "keep", val |-> item, passed |-> FALSE]
    ELSE IF ~pt.has THEN [act |-> "random", val |-> None, passed |-> FALSE]
    ELSE IF Truthy(pt.map[item.s])
         THEN [act |-> "keep", val |-> pt.map[item.s], passed |-> FALSE]
         ELSE [act |-> "random", val |-> None, passed |-> FALSE]

\* what draw_values does for one item of params:
\*   item if not hasattr(item, 'random')
\*   else (item.random(None) if point is None
\*         else (point.get(item.name) or item.random(point)))
\* act "keep" takes val; act "random" calls item.random, with point if passed
DrawItem(item, pt) ==
    IF ~HasRandom(item) THEN [act |-> "keep", val |-> item, passed |-> FALSE]
    ELSE IF ~pt.has THEN [act |-> "random", val |-> None, passed |-> FALSE]
    ELSE IF Truthy(pt.map[item.s])
         THEN [act |-> "keep", val |-> pt.map[item.s], passed |-> FALSE]
         ELSE [act |-> "random", val |-> None, passed |-> TRUE]

\* np.squeeze of the collected results
Squeeze(vals) == IF Len(vals) = 1 THEN vals[1] ELSE vals

(***************************************************************************)
(* The model graph and the inputs                                          *)
(***************************************************************************)
MaxParam    == 2
MaxValue    == 2
MaxEntries  == 2
MaxPointVal == 1

Shape == Num(1)

Names == {"e", "u", "n", "f", "m", "l", "t", "g", "b", "c", "x"}

\* a model: every variant, six of them with a stochastic parameter, the
\* longest dependency chain c -> n -> u -> e
ModelClass(nm) ==
    CASE nm = "e" -> "Exponential" [] nm = "u" -> "Uniform" [] nm = "n" -> "Normal"
      [] nm = "f" -> "Flat" [] nm = "m" -> "Normal" [] nm = "l" -> "Laplace"
      [] nm = "t" -> "T" [] nm = "g" -> "Gamma" [] nm = "b" -> "Beta"
      [] nm = "c" -> "Cauchy" [] nm = "x" -> "Lognormal"

ModelArgs(nm) ==
    CASE nm = "e" -> <<Num(1)>>
      [] nm = "u" -> <<Num(0), Ref("e")>>
      [] nm = "n" -> <<Ref("u"), Num(1)>>
      [] nm = "f" -> <<>>
      [] nm = "m" -> <<Ref("f"), None, Num(2)>>
      [] nm = "l" -> <<Num(0), Num(1)>>
      [] nm = "t" -> <<Num(3)>>
      [] nm = "g" -> <<Num(2), Num(1)>>
      [] nm = "b" -> <<Num(2), Ref("e")>>
      [] nm = "c" -> <<Ref("n"), Num(1)>>
      [] nm = "x" -> <<Num(0), Ref("e")>>

Model == [nm \in Names |-> Dist(ModelClass(nm), ModelArgs(nm), Shape)]

\* the names a fixed state has entries for: the four that are parameters of
\* another variable, and one that is not
PointKeys == {"e", "u", "n", "f", "c"}

PointVals == {Num(i) : i \in 0..MaxPointVal}

Points ==
    {NoPoint(Names)} \cup
    {[has |-> TRUE, map |-> [nm \in Names |-> IF nm \in PointKeys THEN m[nm] ELSE None]] :
        m \in {mm \in [PointKeys -> PointVals \cup {None}] :
                 Cardinality({nm \in PointKeys : mm[nm] # None}) <= MaxEntries}}

\* params of a direct draw_values call: one item, or a concrete value and an item
ItemPool  == {Ref(nm) : nm \in Names} \cup {Num(0), Num(2)}
ItemLists ==
    {<<a>> : a \in ItemPool} \cup
    {<<a, Ref(nm)>> : a \in {Num(2)}, nm \in Names} \cup
    {<<Ref(nm), a>> : a \in {Num(0)}, nm \in Names}

Classes == {"Uniform", "Flat", "Normal", "Beta", "Exponential", "Laplace",
            "Lognormal", "T", "Cauchy", "Gamma"}

ArgVals  == {None} \cup {Num(i) : i \in (0 - 1)..MaxParam}
ArgLists == {<<>>} \cup {<<a>> : a \in ArgVals} \cup {<<a, b>> : a, b \in ArgVals}
            \cup {<<a, b, c>> : a, b, c \in ArgVals}

LogpValues == {Num(i) : i \in (0 - 1)..MaxValue} \cup {Fin(1, 2)}

\* Bound templates; the first is Tpos = Bound(T, 0)
Templates == {Bound_init("T", Num(0), PosInf),
              Bound_init("Exponential", Num(1), PosInf),
              Bound_init("Uniform", Num(0), Num(1)),
              Bound_init("Normal", NegInf, Num(1))}

IsConcrete(inst) ==
    /\ ~IsRaised(inst)
    /\ \A a \in DOMAIN inst.at :
          a \in {"lower", "upper", "mu", "tau", "alpha", "beta", "lam", "b", "nu"}
             => IsNum(inst.at[a])

(***************************************************************************)
(* State                                                                   *)
(*   nodes   the model's variables, by name                                *)
(*   tmpl    a Bound template                                              *)
(*   point   the fixed state of the sampling call under way                *)
(*   stack   the frames of the random() calls under way, innermost last:   *)
(*           node ("" for a direct draw_values call), params, pt (whether  *)
(*           it was handed point), i (the next item), vals (the results)   *)
(*   trace   what draw_values did for each stochastic item so far: "kept"  *)
(*           the looked-up entry, "invoked" item.random (passed: with      *)
(*           point), "sampled" the value val that item.random returned;    *)
(*           has: point was given, entry: point.get(item.name)             *)
(*   op      the call under way or just ended                              *)
(*   result  its outcome                                                   *)
(***************************************************************************)
OpRec(name, target, args, value) ==
    [name |-> name, target |-> target, args |-> args, value |-> value]

NoOp == OpRec("", "", <<>>, None)

Res(st, val) == [st |-> st, val |-> val]
NoRes == Res("none", None)

Frame(node, params, pt) ==
    [node |-> node, params |-> params, pt |-> pt, i |-> 1, vals |-> <<>>]

TraceRec(t, item, has, entry, passed, val, depth) ==
    [t |-> t, item |-> item, has |-> has, entry |-> entry, passed |-> passed,
     val |-> val, depth |-> depth]

Idle == stack = <<>> /\ result.st = "none"

Init ==
    /\ nodes = Model
    /\ tmpl \in Templates
    /\ point = NoPoint(Names)
    /\ stack = <<>>
    /\ trace = {}
    /\ op = NoOp
    /\ result = NoRes

\* the outcome of a constructor call
Made(inst) ==
    IF IsRaised(inst) THEN Res("raised", inst.at["error"]) ELSE Res("returned", inst)

\* the outcome of a call that computes the number r
Computed(r) == IF IsErr(r) THEN Res("raised", r) ELSE Res("returned", r)

\* cls(*args): a constructor call
DoConstruct(cls, args) ==
    /\ op' = OpRec("construct", cls, args, None)
    /\ result' = Made(Dist(cls, args, Shape))
    /\ UNCHANGED <<nodes, tmpl, point, stack, trace>>

\* get_tau(tau, sd)
DoGetTau(tau, sd) ==
    /\ op' = OpRec("get_tau", "", <<tau, sd>>, None)
    /\ result' = Computed(get_tau(tau, sd))
    /\ UNCHANGED <<nodes, tmpl, point, stack, trace>>

\* tmpl(name, *args): the template applied
DoApply(args) ==
    /\ op' = OpRec("apply", tmpl.distribution, args, None)
    /\ result' = Made(Bound_call(tmpl, args, Shape))
    /\ UNCHANGED <<nodes, tmpl, point, stack, trace>>

\* the instances logp is called on: those of the model whose parameters are
\* concrete, those a constructor makes, those the template makes
LogpInstances ==
    {i \in ({nodes[nm] : nm \in Names}
            \cup {Dist(cls, args, Shape) : cls \in Classes, args \in ArgLists}
            \cup {Bound_call(tmpl, args, Shape) : args \in ArgLists}) : IsConcrete(i)}

\* inst.logp(value)
DoLogpCall(inst, value) ==
    /\ op' = OpRec("logp", inst, <<>>, value)
    /\ result' = Computed(Logp(inst, value))
    /\ UNCHANGED <<nodes, tmpl, point, stack, trace>>

\* entering nm.random(point or None): it raises at once, or has a frame
Enter(nm, pt, stk) ==
    IF RandomRaisesFirst(nodes[nm]) # None
    THEN /\ stack' = <<>>
         /\ result' = Res("raised", RandomRaisesFirst(nodes[nm]))
    ELSE /\ stack' = Append(stk, Frame(nm, RandomParams(nodes[nm]), pt))
         /\ result' = Res("running", None)

\* nodes[nm].random(pt)
DoCallRandom(nm, pt) ==
    /\ op' = OpRec("random", nm, <<>>, None)
    /\ point' = pt
    /\ trace' = {}
    /\ Enter(nm, pt.has, <<>>)
    /\ UNCHANGED <<nodes, tmpl>>

\* draw_values(params, pt)
DoCallDrawValues(params, pt) ==
    /\ op' = OpRec("draw_values", "", params, None)
    /\ point' = pt
    /\ trace' = {}
    /\ stack' = <<Frame("", params, pt.has)>>
    /\ result' = Res("running", None)
    /\ UNCHANGED <<nodes, tmpl>>

Top == stack[Len(stack)]
Push(stk, v) == [stk EXCEPT ![Len(stk)] = [@ EXCEPT !.vals = Append(@, v), !.i = @ + 1]]

\* draw_values takes its next item
DrawStep ==
    /\ stack # <<>>
    /\ Top.i <= Len(Top.params)
    /\ LET item == Top.params[Top.i]
           pt   == [has |-> Top.pt, map |-> point.map]
           d    == DrawItem(item, pt)
           ent  == IF HasRandom(item) /\ pt.has THEN pt.map[item.s] ELSE None
       IN  /\ point' = IF HasRandom(item) /\ pt.has THEN AfterGet(point, item.s) ELSE point
           /\ IF d.act = "keep"
              THEN /\ stack' = Push(stack, d.val)
                   /\ trace' = IF HasRandom(item)
                               THEN trace \cup {TraceRec("kept", item.s, pt.has, ent,
                                                         FALSE, d.val, Len(stack))}
                               ELSE trace
                   /\ UNCHANGED result
              ELSE /\ trace' = trace \cup {TraceRec("invoked", item.s, pt.has, ent,
                                                    d.passed, None, Len(stack))}
                   /\ Enter(item.s, d.passed, stack)
    /\ UNCHANGED <<nodes, tmpl, op>>

\* draw_values has returned: random() draws and returns, or raises; a direct
\* draw_values call returns the squeezed results
ReturnStep ==
    /\ stack # <<>>
    /\ Top.i > Len(Top.params)
    /\ IF Top.node = ""
       THEN /\ result' = Res("returned", Squeeze(Top.vals))
            /\ stack' = <<>>
            /\ UNCHANGED trace
       ELSE \E s \in RandomDraw(nodes[Top.node], Top.vals) :
               IF IsErr(s)
               THEN /\ result' = Res("raised", s)
                    /\ stack' = <<>>
                    /\ UNCHANGED trace
               ELSE IF Len(stack) = 1
               THEN /\ result' = Res("returned", s)
                    /\ stack' = <<>>
                    /\ UNCHANGED trace
               ELSE LET rest   == SubSeq(stack, 1, Len(stack) - 1)
                        caller == rest[Len(rest)]
                    IN  /\ stack' = Push(rest, s)
                        /\ trace' = trace \cup
                              {TraceRec("sampled", Top.node, caller.pt,
                                        IF caller.pt THEN point.map[Top.node] ELSE None,
                                        Top.pt, s, Len(rest))}
                        /\ UNCHANGED result
    /\ UNCHANGED <<nodes, tmpl, point, op>>

\* the caller takes the outcome
Done ==
    /\ stack = <<>>
    /\ result.st \in {"returned", "raised"}
    /\ op' = NoOp
    /\ result' = NoRes
    /\ trace' = {}
    /\ point' = NoPoint(Names)
    /\ UNCHANGED <<nodes, tmpl, stack>>

\* The calls; one is made only when none is under way.
Construct == Idle /\ \E cls \in Classes, args \in ArgLists : DoConstruct(cls, args)

GetTau == Idle /\ \E tau \in ArgVals, sd \in ArgVals : DoGetTau(tau, sd)

Apply == Idle /\ \E args \in ArgLists : DoApply(args)

LogpCall == Idle /\ \E inst \in LogpInstances, value \in LogpValues : DoLogpCall(inst, value)

CallRandom == Idle /\ \E nm \in Names, pt \in Points : DoCallRandom(nm, pt)

CallDrawValues == Idle /\ \E params \in ItemLists, pt \in Points : DoCallDrawValues(params, pt)

Next ==
    \/ Construct
    \/ GetTau
    \/ Apply
    \/ LogpCall
    \/ CallRandom
    \/ CallDrawValues
    \/ DrawStep
    \/ ReturnStep
    \/ Done

Spec == Init /\ [][Next]_vars

(***************************************************************************)
(* Properties                                                              *)
(***************************************************************************)
\* a call has ended and its outcome is in result
Ended(name) == op.name = name /\ result.st \in {"returned", "raised"}

\* the i-th value a direct draw_values call has returned
ResultAt(i) == IF Len(op.args) = 1 THEN result.val ELSE result.val[i]

\* the stochastic items of a parameter list
RefsOf(params) == {params[i].s : i \in {j \in DOMAIN params : HasRandom(params[j])}}

\* the number of variables on the longest dependency chain that starts at nm
RECURSIVE ChainLen(_)
ChainLen(nm) ==
    LET below == RefsOf(RandomParams(nodes[nm]))
    IN  IF below = {} THEN 1
        ELSE 1 + (CHOOSE m \in {ChainLen(b) : b \in below} :
                     \A k \in {ChainLen(b) : b \in below} : k <= m)

\* C1: for a stochastic item whose name has an entry in the supplied fixed
\* state, draw_values returns exactly the mapped value and does not invoke
\* the item's sampling operation, whatever the value (0 and other falsy
\* values included).
C1_MappedValueReturned ==
    /\ \A r \in trace :
          (r.has /\ r.entry # None) => (r.t = "kept" /\ r.val = r.entry)
    /\ (Ended("draw_values") /\ point.has) =>
          \A i \in DOMAIN op.args :
             (HasRandom(op.args[i]) /\ point.map[op.args[i].s] # None)
                => (result.st = "returned" /\ ResultAt(i) = point.map[op.args[i].s])

\* the support constraints of the eight variants that declare them
SupportViolated(inst, x) ==
    LET self == inst.at
        zero == Num(0)
    IN  CASE inst.cls = "Uniform" -> Lt(x, self["lower"]) \/ Gt(x, self["upper"])
          [] inst.cls = "Normal" -> Le(self["tau"], zero)
          [] inst.cls = "Beta" ->
                Lt(x, zero) \/ Gt(x, Num(1)) \/ Le(self["alpha"], zero) \/ Le(self["beta"], zero)
          [] inst.cls = "Exponential" -> Le(x, zero) \/ Le(self["lam"], zero)
          [] inst.cls = "Lognormal" -> Le(self["tau"], zero) \/ Le(x, zero)
          [] inst.cls = "T" -> Le(self["lam"], zero) \/ Le(self["nu"], zero)
          [] inst.cls = "Cauchy" -> Le(self["beta"], zero)
          [] inst.cls = "Gamma" ->
                Lt(x, zero) \/ Le(self["alpha"], zero) \/ Le(self["beta"], zero)
          [] OTHER -> FALSE

\* C2: for every variant and every value and parameters that violate one of
\* the variant's support constraints, logp returns negative infinity and
\* raises no error.
C2_OutsideSupportIsNegInf ==
    (Ended("logp") /\ SupportViolated(op.target, op.value))
       => result = Res("returned", NegInf)

\* C3: for a Bounded instance made by applying Bound(variant, lower, upper),
\* logp(x) is negative infinity when x < lower or x > upper, and otherwise
\* is exactly the inner variant's logp(x), with no renormalization term.
C3_BoundedLogp ==
    (Ended("logp") /\ op.target.cls = "Bounded") =>
       IF Lt(op.value, tmpl.lower) \/ Gt(op.value, tmpl.upper)
       THEN result = Res("returned", NegInf)
       ELSE result = Computed(VariantLogp(op.target.at["dist"], op.value))

\* C4: for every variant other than Flat with valid concrete parameters,
\* random(point) completes without raising, for point absent or present,
\* and returns a number.
C4_RandomCompletes ==
    (Ended("random") /\ nodes[op.target].cls # "Flat" /\ IsConcrete(nodes[op.target]))
       => (result.st = "returned" /\ IsFin(result.val))


\* C5: get_tau returns 1 when neither tau nor sd is given, sd^-2 when only
\* sd is given (0.25 for sd = 2), tau when only tau is given, and raises the
\* parameterization-conflict error when both are given; Normal with both
\* fails at construction with that error, and Normal with only sd stores
\* tau = sd^-2 and variance = 1/tau.
C5_GetTau ==
    /\ op.name = "get_tau" =>
          LET tau == op.args[1]
              sd  == op.args[2]
          IN  /\ (tau = None /\ sd = None) => result = Res("returned", Num(1))
              /\ (tau = None /\ sd \notin {None, Num(0)}) =>
                    (result.st = "returned" /\ Mul(result.val, Sq(sd)) = Num(1))
              /\ (tau = None /\ sd = Num(2)) => result.val = Fin(1, 4)
              /\ (tau # None /\ sd = None) => result = Res("returned", tau)
              /\ (tau # None /\ sd # None) => result = Res("raised", Err("ValueError"))
    /\ (op.name = "construct" /\ op.target = "Normal") =>
          LET tau == Arg(op.args, 2, None)
              sd  == Arg(op.args, 3, None)
          IN  /\ (tau # None /\ sd # None) => result = Res("raised", Err("ValueError"))
              /\ (tau = None /\ sd \notin {None, Num(0)}) =>
                    /\ result.st = "returned"
                    /\ Mul(result.val.at["tau"], Sq(sd)) = Num(1)
                    /\ Mul(result.val.at["variance"], result.val.at["tau"]) = Num(1)

C5_Reached ==
    /\ op.name = "construct" /\ op.target = "Normal"
    /\ Len(op.args) = 3 /\ op.args[2] = None /\ op.args[3] = Num(2)
    /\ result.st = "returned"
    /\ result.val.at["tau"] = Fin(1, 4)
    /\ result.val.at["variance"] = Num(4)

\* items without a sampling operation come back from draw_values unchanged
ConcreteItemsUnchanged ==
    (Ended("draw_values") /\ result.st = "returned") =>
       \A i \in DOMAIN op.args : ~HasRandom(op.args[i]) => ResultAt(i) = op.args[i]

\* C6, as stated: a stochastic item without an entry in the fixed state, and
\* every stochastic item when no fixed state is given, is resolved by its
\* sampling operation invoked with no fixed state passed; items without a
\* sampling operation are returned unchanged.
C6_FallbackWithoutFixedState ==
    /\ \A r \in trace : r.entry = None => (r.t # "kept" /\ ~r.passed)
    /\ ConcreteItemsUnchanged

\* C6, amended: a stochastic item without an entry in the supplied fixed
\* state is resolved by its sampling operation invoked with that same fixed
\* state; with no fixed state given it is invoked with none; items without a
\* sampling operation are returned unchanged.
C6_FallbackPassesFixedState ==
    /\ \A r \in trace : r.entry = None => (r.t # "kept" /\ r.passed = r.has)
    /\ \A r \in trace :
          (r.t = "invoked" /\ Len(stack) > r.depth /\ stack[r.depth + 1].node = r.item)
             => stack[r.depth + 1].pt = r.passed
    /\ ConcreteItemsUnchanged

C6_Reached ==
    /\ op.name = "draw_values" /\ Len(op.args) = 2 /\ result.st = "returned"
    /\ \E r \in trace : r.t = "sampled" /\ r.has /\ r.entry = None /\ r.passed
    /\ \E i \in DOMAIN op.args : ~HasRandom(op.args[i]) /\ ResultAt(i) = op.args[i]

\* C7: Flat.random raises the unsupported-operation error on every call,
\* whatever point is, and never returns a value; Flat.logp returns 0 for
\* every value, never negative infinity.
C7_Flat ==
    /\ (op.name = "random" /\ nodes[op.target].cls = "Flat")
          => result = Res("raised", Err("NotImplementedError"))
    /\ \A r \in trace :
          nodes[r.item].cls = "Flat" =>
             /\ r.t # "sampled"
             /\ r.t = "invoked" => result = Res("raised", Err("NotImplementedError"))
    /\ \A i \in DOMAIN stack : stack[i].node = "" \/ nodes[stack[i].node].cls # "Flat"
    /\ (op.name = "logp" /\ op.target.cls = "Flat") => result = Res("returned", Num(0))

C7_Reached ==
    /\ op.name = "random" /\ nodes[op.target].cls = "Flat"
    /\ point.has /\ point.map[op.target] # None
    /\ result.st = "raised"

\* C8: a Bounded instance holds every attribute of its inner variant under
\* the same name with the same value, lower and upper of an inner Uniform
\* included, and its mode is the inner variant's mode.
C8_BoundedHoldsInnerAttributes ==
    (Ended("apply") /\ result.st = "returned") =>
       LET inner == result.val.at["dist"]
       IN  \A a \in DOMAIN inner.at :
              a \in DOMAIN result.val.at /\ result.val.at[a] = inner.at[a]

\* C9: the calls leave the model's instances (parameter references and
\* cached statistics) as they were constructed, a sampling call leaves the
\* fixed state it was given as it was, and applying the template leaves the
\* template's distribution, lower and upper unchanged.
C9_Frame ==
    [][/\ nodes' = nodes
       /\ tmpl' = tmpl
       /\ stack # <<>> => point' = point]_vars

C9_Reached ==
    /\ Ended("random") /\ result.st = "returned"
    /\ point.has
    /\ \E r \in trace : r.t = "kept" /\ r.entry # None
    /\ nodes = Model

\* the frames a call may have under way: one for each variable of the
\* longest dependency chain, and one for a direct draw_values call
DepthBound ==
    IF op.name = "random" THEN ChainLen(op.target)
    ELSE IF op.name = "draw_values"
         THEN 1 + (IF RefsOf(op.args) = {} THEN 0
                   ELSE CHOOSE m \in {ChainLen(b) : b \in RefsOf(op.args)} :
                           \A k \in {ChainLen(b) : b \in RefsOf(op.args)} : k <= m)
         ELSE 0

\* C10: with an acyclic dependency graph the recursion of random through
\* the stochastic parameters goes no deeper than the longest dependency
\* chain below the variable, and does not descend into a stochastic
\* parameter whose name has an entry in the fixed state.
C10_BoundedDescent ==
    /\ Len(stack) <= DepthBound
    /\ \A r \in trace : (r.has /\ r.entry # None) => r.t \notin {"invoked", "sampled"}

====
